---------------------------- MODULE Spec2Model ----------------------------
(***************************************************************************)
(* A model of the Chocoshop online store (src/main.py): the login and      *)
(* product-ingestion handlers with their Firestore collections and the     *)
(* storage bucket, the keyword search, and the process-global cart.        *)
(*                                                                         *)
(* Strings whose characters the code inspects (product names, keywords,    *)
(* search queries) are sequences of one-character strings; all other       *)
(* strings are opaque.  Python's None is NoneVal; a key or form part that  *)
(* is absent is Missing.                                                   *)
(***************************************************************************)
EXTENDS Integers, Sequences, FiniteSets, TLC

VARIABLES
    users,            \* Firestore collection 'store_managers', in stream() order
    session,          \* per client: the user id flask_login keeps in the session
    products,         \* Firestore collection 'products': a set of [key, doc]
    bucket,           \* blob names stored in the bucket
    uploaded_images,  \* file names present in the staging folder
    pc,               \* per client: where its /add request stands
    req,              \* per client: the locals of its /add request
    resp,             \* the last response sent: to whom, by which route, what
    cart,             \* the module-level list `cart`
    rq,               \* the requests in flight (search and cart-race models)
    rpc,              \* each such request's position
    it,               \* each removal's list-iterator index
    cur,              \* each removal's loop variable `product`
    cart0             \* the cart before the requests in flight started

ingestVars == <<users, session, products, bucket, uploaded_images, pc, req>>
raceVars == <<rq, rpc, it, cur, cart0>>
vars == <<users, session, products, bucket, uploaded_images, pc, req, resp,
          cart, rq, rpc, it, cur, cart0>>

---------------------------------------------------------------------------
(* Values                                                                  *)

NoneVal == "None"
Missing == "<missing>"

Clients == {"c1", "c2"}
Methods == {"GET", "POST"}

\* Bounds of the model.
MaxUsers == 2
MaxCart == 3
MaxQueryLen == 6

BUCKET_NAME == "bucket"

---------------------------------------------------------------------------
(* Character strings, over the letters A, B, a, b, the space and the       *)
(* underscore                                                              *)

\* str.lower(), one character
LowerChar(ch) ==
    CASE ch = "A" -> "a"
      [] ch = "B" -> "b"
      [] OTHER -> ch

\* str.lower()
Lower(s) == [i \in 1..Len(s) |-> LowerChar(s[i])]

\* str.replace(' ', '_')
ReplaceSpaces(s) == [i \in 1..Len(s) |-> IF s[i] = " " THEN "_" ELSE s[i]]

\* name.replace(' ', '_').lower()
Slug(name) == Lower(ReplaceSpaces(name))

\* s[:n]
Take(s, n) == IF Len(s) <= n THEN s ELSE SubSeq(s, 1, n)

\* `sub in s` for Python strings
Contains(s, sub) ==
    \E i \in 0..(Len(s) - Len(sub)) :
        \A j \in 1..Len(sub) : s[i + j] = sub[j]

---------------------------------------------------------------------------
(* Authorized users and password hashes                                    *)

Usernames == {"alice", "bob"}
Passwords == {"p1", "p2"}
Salts == {"s1"}

\* The digest werkzeug computes from method, salt and password: an ideal
\* hash, injective in its arguments.
Digest(method, salt, password) == <<method, salt, password>>

\* werkzeug.security.generate_password_hash(password, method, salt_length)
generate_password_hash(password, salt) ==
    [method |-> "pbkdf2:sha256", salt |-> salt,
     digest |-> Digest("pbkdf2:sha256", salt, password)]

\* werkzeug.security.check_password_hash(pwhash, password)
check_password_hash(pwhash, password) ==
    pwhash.digest = Digest(pwhash.method, pwhash.salt, password)

\* add_authorized_user(): the record it stores
add_authorized_user(username, password, salt) ==
    [username |-> username, password |-> generate_password_hash(password, salt)]

ManagerRecords ==
    {add_authorized_user(u, p, s) : u \in Usernames, p \in Passwords, s \in Salts}

\* get_authorized_users(): the collection as a list
get_authorized_users == users

\* load_user(user_id): the first record with that username; found is FALSE
\* when the loop ends without one (the callback returns None).
NoUser == [username |-> NoneVal, password |-> generate_password_hash(NoneVal, NoneVal)]

RECURSIVE LoadFrom(_, _, _)
LoadFrom(docs, i, user_id) ==
    IF i > Len(docs) THEN [found |-> FALSE, user |-> NoUser]
    ELSE IF docs[i].username = user_id THEN [found |-> TRUE, user |-> docs[i]]
    ELSE LoadFrom(docs, i + 1, user_id)

load_user(user_id) == LoadFrom(get_authorized_users, 1, user_id)

\* current_user.is_authenticated for client c
is_authenticated(c) ==
    /\ session[c] # NoneVal
    /\ load_user(session[c]).found

\* A faulty variant of the test below: the password is not verified.
MatchesUsernameOnly(user, username, password) == username = user.username

\* The `if` of login()'s loop: the record matches the submitted credentials.
Matches(user, username, password) ==
    /\ username = user.username
    /\ check_password_hash(user.password, password)

\* login()'s loop from record i on: what the request ends with.
\*   found   : a record matched; user is that record
\*   flashes : how many times flash() was called
\*   raised  : check_password_hash raised (no password in the form)
RECURSIVE LoginScan(_, _, _, _, _)
LoginScan(docs, i, username, password, flashes) ==
    IF i > Len(docs)
    THEN [found |-> FALSE, user |-> NoUser, flashes |-> flashes, raised |-> FALSE]
    ELSE IF username = docs[i].username /\ password = NoneVal
    THEN [found |-> FALSE, user |-> NoUser, flashes |-> flashes, raised |-> TRUE]
    ELSE IF Matches(docs[i], username, password)
    THEN [found |-> TRUE, user |-> docs[i], flashes |-> flashes, raised |-> FALSE]
    ELSE LoginScan(docs, i + 1, username, password, flashes + 1)

\* User.get_id()
get_id(user_doc) == user_doc.username

\* A response: the client it goes to, the route that produced it, the HTTP
\* status, the page rendered or the redirect's target, and how many times the
\* handler called flash().
Response(c, route, status, body, flashes) ==
    [client |-> c, route |-> route, status |-> status, body |-> body,
     flashes |-> flashes, data |-> <<>>]

\* render_template(page, **data)
Render(c, route, page, data) ==
    [client |-> c, route |-> route, status |-> 200, body |-> page,
     flashes |-> 0, data |-> data]

NoResp == Response("", "", 0, "", 0)

\* The /login handler.
login(c, method, username, password) ==
    /\ pc[c] = "idle"
    /\ IF method = "POST"
       THEN LET r == LoginScan(get_authorized_users, 1, username, password, 0)
            IN  IF r.raised
                THEN /\ resp' = Response(c, "/login", 500, "error", r.flashes)
                     /\ UNCHANGED session
                ELSE IF r.found
                THEN /\ session' = [session EXCEPT ![c] = get_id(r.user)]
                     /\ resp' = Response(c, "/login", 302, "/add", r.flashes)
                ELSE /\ resp' = Response(c, "/login", 200, "login.html", r.flashes)
                     /\ UNCHANGED session
       ELSE /\ resp' = Response(c, "/login", 200, "login.html", 0)
            /\ UNCHANGED session
    /\ UNCHANGED <<users, products, bucket, uploaded_images, pc, req, cart>>
    /\ UNCHANGED raceVars

---------------------------------------------------------------------------
(* Product ingestion                                                       *)

\* ProductForm.category's choices
Categories == {"chocolate", "strawberries", "candies", "statues"}

\* What a client can put in the fields of the product form.  No field is
\* validated by add_product(), so every value here reaches the handler's body.
ProductNames == {<<"A", " ", "b">>, <<"a", "_", "b">>, <<>>}
CategoryInputs == {"chocolate", Missing}
PriceInputs == {1}
KeywordInputs == {<<"A", "b">>}
ImageInputs == {Missing, "", "a.png", "../a.png"}

\* StringField.data: the submitted text, '' when the field is absent or empty
StringFieldData(v) == IF v = Missing THEN <<>> ELSE v

\* SelectField.data: the submitted choice, None when the field is absent
SelectFieldData(v) == IF v = Missing THEN NoneVal ELSE v

\* werkzeug.utils.secure_filename on the file names of the model
secure_filename(fn) == IF fn = "../a.png" THEN "a.png" ELSE fn

NoReq == [name |-> <<>>, category |-> NoneVal, price |-> 0, weight |-> NoneVal,
          desc |-> <<>>, keywords |-> <<>>, filename |-> ""]


\* The destination blob name f"{category}/{name_to_save}"
BlobName(category, name_to_save) == <<category, name_to_save>>

\* f"https://storage.cloud.google.com/{BUCKET_NAME}/{category}/{name_to_save}"
ImageRef(category, name_to_save) == <<BUCKET_NAME, category, name_to_save>>

\* A faulty variant of the write below: a new document is added beside the
\* one already stored under `key` (collection.add in place of document.set).
DocumentAdd(coll, key, doc) ==
    coll \cup {[key |-> key, doc |-> doc, updated |-> \E e \in coll : e.key = key]}

\* document_ref.set(doc) on the collection: the document under `key` is
\* created or replaced.  `updated` is Firestore's own record of a replacement
\* (the document's update_time differs from its create_time).
DocumentSet(coll, key, doc) ==
    {e \in coll : e.key # key}
        \cup {[key |-> key, doc |-> doc, updated |-> \E e \in coll : e.key = key]}

\* The document upload_to_firestore() writes.
ProductDoc(name, category, price, weight, image_ref, description, keywords) ==
    [name |-> name, category |-> category, price |-> price, weight |-> weight,
     image |-> image_ref, description |-> description, keywords |-> Lower(keywords)]

\* upload_to_firestore(): the collection after the write
upload_to_firestore(coll, name, category, price, weight, image_ref, description, keywords) ==
    DocumentSet(coll, Slug(name),
        ProductDoc(name, category, price, weight, image_ref, description, keywords))

\* A faulty variant of the guard below: every session passes.
NoGuard(c) == TRUE

\* The guard of add_product(): current_user.is_authenticated
AddGuard(c) == is_authenticated(c)

\* ProductForm's DataRequired validators on name, category and image.
\* add_product() never calls validate() or validate_on_submit(), so the
\* handler below does not consult them.
FormValid(form) ==
    /\ StringFieldData(form.name) # <<>>
    /\ form.category # Missing
    /\ form.image \notin {Missing, ""}

\* /add, lines 217-232: the guard, the form's data, and the save of the
\* uploaded file into the staging folder.
add_product(c, method, form) ==
    /\ pc[c] = "idle"
    /\ IF ~AddGuard(c)
       THEN /\ resp' = Response(c, "/add", 302, "/login", 0)
            /\ UNCHANGED <<pc, req, uploaded_images>>
       ELSE IF method = "GET"
       THEN /\ resp' = Response(c, "/add", 200, "add_product.html", 0)
            /\ UNCHANGED <<pc, req, uploaded_images>>
       ELSE IF form.image = Missing
       THEN \* request.files['image'] raises BadRequestKeyError
            /\ resp' = Response(c, "/add", 400, "error", 0)
            /\ UNCHANGED <<pc, req, uploaded_images>>
       ELSE IF secure_filename(form.image) = ""
       THEN \* image.save() on the folder itself raises
            /\ resp' = Response(c, "/add", 500, "error", 0)
            /\ UNCHANGED <<pc, req, uploaded_images>>
       ELSE /\ uploaded_images' = uploaded_images \cup {secure_filename(form.image)}
            /\ req' = [req EXCEPT ![c] =
                   [name |-> StringFieldData(form.name),
                    category |-> SelectFieldData(form.category),
                    price |-> form.price, weight |-> form.weight,
                    desc |-> form.description,
                    keywords |-> StringFieldData(form.keywords),
                    filename |-> secure_filename(form.image)]]
            /\ pc' = [pc EXCEPT ![c] = "saved"]
            /\ UNCHANGED resp
    /\ UNCHANGED <<users, session, products, bucket, cart>>
    /\ UNCHANGED raceVars

\* A faulty variant of the rule below: the upload's exception is swallowed.
ProceedsAlways(stored) == TRUE

\* Whether add_product() goes on after upload_to_bucket(): the call is not
\* wrapped in try/except, so only when the upload returned.
ProceedsAfterUpload(stored) == stored

\* /add, lines 233-234: upload_to_bucket().  The upload raises when the
\* staged file is gone or when the storage backend fails.
upload_to_bucket(c, backend_ok) ==
    /\ pc[c] = "saved"
    /\ IF ProceedsAfterUpload(req[c].filename \in uploaded_images /\ backend_ok)
       THEN /\ bucket' = IF req[c].filename \in uploaded_images /\ backend_ok
                          THEN bucket \cup {BlobName(req[c].category, Slug(req[c].name))}
                          ELSE bucket
            /\ pc' = [pc EXCEPT ![c] = "uploaded"]
            /\ UNCHANGED <<req, resp>>
       ELSE /\ resp' = Response(c, "/add", 500, "error", 0)
            /\ pc' = [pc EXCEPT ![c] = "idle"]
            /\ req' = [req EXCEPT ![c] = NoReq]
            /\ UNCHANGED bucket
    /\ UNCHANGED <<users, session, products, uploaded_images, cart>>
    /\ UNCHANGED raceVars

\* /add, lines 235-240: os.remove(), upload_to_firestore(), the redirect.
\* os.remove() raises when another request already removed the staged file;
\* Firestore refuses an empty document id.
finish_add(c) ==
    /\ pc[c] = "uploaded"
    /\ IF req[c].filename \notin uploaded_images \/ Slug(req[c].name) = <<>>
       THEN /\ resp' = Response(c, "/add", 500, "error", 0)
            /\ uploaded_images' = uploaded_images \ {req[c].filename}
            /\ UNCHANGED products
       ELSE /\ uploaded_images' = uploaded_images \ {req[c].filename}
            /\ products' = upload_to_firestore(products, req[c].name, req[c].category,
                               req[c].price, req[c].weight,
                               ImageRef(req[c].category, Slug(req[c].name)),
                               req[c].desc, req[c].keywords)
            /\ resp' = Response(c, "/add", 302, "/add", 0)
    /\ pc' = [pc EXCEPT ![c] = "idle"]
    /\ req' = [req EXCEPT ![c] = NoReq]
    /\ UNCHANGED <<users, session, bucket, cart>>
    /\ UNCHANGED raceVars

---------------------------------------------------------------------------
(* The store's specification: login and product ingestion                  *)

\* The managers provisioned out of band with add_authorized_user().
StoreManagers == <<add_authorized_user("alice", "p1", "s1")>>

ProductForms ==
    [name : ProductNames, category : CategoryInputs, price : PriceInputs,
     weight : {NoneVal}, description : {<<>>}, keywords : KeywordInputs,
     image : ImageInputs]

InitIngest ==
    /\ session = [c \in Clients |-> NoneVal]
    /\ products = {}
    /\ bucket = {}
    /\ uploaded_images = {}
    /\ pc = [c \in Clients |-> "idle"]
    /\ req = [c \in Clients |-> NoReq]

InitRace ==
    /\ rq = <<>>
    /\ rpc = <<>>
    /\ it = <<>>
    /\ cur = <<>>
    /\ cart0 = <<>>

Init ==
    /\ users = StoreManagers
    /\ InitIngest
    /\ resp = NoResp
    /\ cart = <<>>
    /\ InitRace

Login == \E c \in Clients, m \in Methods,
            u \in Usernames \cup {NoneVal}, p \in Passwords \cup {NoneVal} :
            login(c, m, u, p)

AddProduct == \E c \in Clients, m \in Methods, f \in ProductForms : add_product(c, m, f)

UploadToBucket == \E c \in Clients, ok \in BOOLEAN : upload_to_bucket(c, ok)

FinishAdd == \E c \in Clients : finish_add(c)

Next == Login \/ AddProduct \/ UploadToBucket \/ FinishAdd

Spec == Init /\ [][Next]_vars

---------------------------------------------------------------------------
(* Properties of login and product ingestion (specification Spec)          *)

\* C2: a /add request, GET or POST, of a session that is not logged in is
\* answered with the redirect to the login page and changes nothing: it saves
\* no file, starts no upload, writes no document; and no later step of an
\* ingestion ever runs for such a session.
C2_UnauthenticatedAddRedirects ==
    /\ [](\A c \in Clients : ~is_authenticated(c) => pc[c] = "idle")
    /\ [][\A c \in Clients :
            (~is_authenticated(c) /\ \E m \in Methods, f \in ProductForms : add_product(c, m, f))
            => /\ resp' = Response(c, "/add", 302, "/login", 0)
               /\ UNCHANGED <<products, bucket, uploaded_images, pc, req>>]_vars

\* C2's case: an anonymous client has just been redirected from /add while
\* the other client, logged in, has ingested a product.
C2_Witness ==
    /\ resp.route = "/add"
    /\ ~is_authenticated(resp.client)
    /\ resp.body = "/login"
    /\ products # {}

\* The slug as the data model words it: spaces become underscores, letters
\* become lowercase.
C7_SlugOf(name) ==
    [i \in 1..Len(name) |->
        CASE name[i] = " " -> "_"
          [] name[i] = "A" -> "a"
          [] name[i] = "B" -> "b"
          [] OTHER -> name[i]]

\* C7: every document is stored under the slug of its name, no two documents
\* share a key, and each completed ingestion leaves exactly its own fields
\* under its slug and every other document as it was; nothing else changes
\* the catalog.
C7_SlugKeyedOverwrite ==
    /\ [](/\ \A e \in products : e.key = C7_SlugOf(e.doc.name)
          /\ \A e1, e2 \in products : e1.key = e2.key => e1 = e2)
    /\ [][products' # products =>
            \E c \in Clients :
                /\ pc[c] = "uploaded"
                /\ pc'[c] = "idle"
                /\ LET k == C7_SlugOf(req[c].name)
                   IN  /\ {e \in products' : e.key # k} = {e \in products : e.key # k}
                       /\ \E e \in products' :
                            /\ e.key = k
                            /\ e.doc.name = req[c].name
                            /\ e.doc.category = req[c].category
                            /\ e.doc.price = req[c].price
                            /\ e.doc.keywords = Lower(req[c].keywords)
                            /\ e.doc.image = <<BUCKET_NAME, req[c].category, k>>]_vars

\* C7's case: a document was replaced by the ingestion of a differently
\* written name with the same slug, and the catalog holds that one document.
C7_Witness ==
    /\ resp = Response(resp.client, "/add", 302, "/add", 0)
    /\ \E e \in products :
        /\ e.updated
        /\ e.doc.name = <<"A", " ", "b">>
        /\ e.key = <<"a", "_", "b">>
        /\ Cardinality(products) = 1

\* C8: an authenticated POST to /add whose name, category or image is missing
\* or empty is answered with a validation error and writes nothing; so the
\* catalog never holds a document made from a form without a name or without
\* a category.  (The blob of such a form is stored one step earlier still.)
C8_InvalidFormWritesNoDocument ==
    \A e \in products : e.doc.category # NoneVal /\ e.doc.name # <<>>

\* C9: every catalog document has its image blob stored under category/slug,
\* and a failed upload ends the request in an error with the catalog as it was.
C9_DocumentOnlyAfterBlob ==
    /\ [](\A e \in products : BlobName(e.doc.category, e.key) \in bucket)
    /\ [][\A c \in Clients :
            upload_to_bucket(c, FALSE)
            => /\ resp' = Response(c, "/add", 500, "error", 0)
               /\ bucket' = bucket
               /\ pc'[c] = "idle"
               /\ products' = products]_vars

\* C9's case: an upload has failed (its blob is absent, its request answered
\* with an error) while the catalog holds a document whose blob is stored.
C9_Witness ==
    /\ resp = Response(resp.client, "/add", 500, "error", 0)
    /\ products # {}
    /\ \E cat \in {"chocolate", NoneVal} : BlobName(cat, <<"a", "_", "b">>) \notin bucket
    /\ \A c \in Clients : pc[c] = "idle"

---------------------------------------------------------------------------
(* Login over every provisioned list of managers (specification SpecLogin) *)

RECURSIVE SeqsUpTo(_, _)
SeqsUpTo(S, n) ==
    IF n = 0 THEN {<<>>}
    ELSE LET shorter == SeqsUpTo(S, n - 1)
         IN  shorter \cup {Append(q, x) : q \in {r \in shorter : Len(r) = n - 1}, x \in S}

InitLogin ==
    /\ users \in SeqsUpTo(ManagerRecords, MaxUsers)
    /\ InitIngest
    /\ resp = NoResp
    /\ cart = <<>>
    /\ InitRace

NextLogin == Login

SpecLogin == InitLogin /\ [][NextLogin]_vars

\* C1: a POST to /login logs the client in under the submitted username
\* exactly when some stored record has that username and a hash that verifies
\* against the submitted password; otherwise the session is left as it was
\* and no redirect to /add is sent.
C1_LoginIffCredentialsMatch ==
    [][\A c \in Clients, u \in Usernames \cup {NoneVal}, p \in Passwords \cup {NoneVal} :
        login(c, "POST", u, p) =>
            IF \E i \in 1..Len(users) :
                    /\ users[i].username = u
                    /\ check_password_hash(users[i].password, p)
            THEN /\ session'[c] = u
                 /\ resp'.status = 302
                 /\ resp'.body = "/add"
            ELSE /\ session' = session
                 /\ resp'.status # 302]_vars

\* C1's case: a login that succeeded on the second stored record after the
\* first one did not match, while the other client is still anonymous.
C1_Witness ==
    /\ resp.route = "/login"
    /\ resp.status = 302
    /\ resp.flashes = 1
    /\ session[resp.client] = "bob"
    /\ Len(users) = 2
    /\ users[1].username = "bob"
    /\ \E c \in Clients : session[c] = NoneVal

---------------------------------------------------------------------------
(* The cart                                                                *)

\* What ast.literal_eval() can put in the cart: a dict that may or may not
\* have the keys 'name' and 'price'.  price_kind tells what is under 'price':
\* a number ("float"), None ("None", what FloatField gives for a blank
\* field), or no such key ("absent").
CartNames == {"x", "y"}
CartPrices == {1, 2}

Entry(has_name, name, price_kind, price) ==
    [has_name |-> has_name, name |-> name, price_kind |-> price_kind, price |-> price]

Entries ==
    {Entry(TRUE, n, "float", v) : n \in CartNames, v \in CartPrices}
        \cup {Entry(TRUE, n, k, 0) : n \in CartNames, k \in {"None", "absent"}}
        \cup {Entry(FALSE, "", "float", v) : v \in CartPrices}

\* The 'product' query parameter: ok is FALSE when it is absent or no literal
\* (ast.literal_eval raises).
ProductArgs ==
    {[ok |-> TRUE, value |-> e] : e \in Entries}
        \cup {[ok |-> FALSE, value |-> Entry(FALSE, "", "absent", 0)]}

\* A faulty variant of the append below: a read-modify-write on the list as
\* the request first saw it (cart = old_cart + [x]).
ListAppendStale(l, x) == Append(cart0, x)

\* list.append(x)
ListAppend(l, x) == Append(l, x)

\* The index of the first element of l equal to x, 0 when there is none.
FirstIndexOf(l, x) ==
    IF \E i \in 1..Len(l) : l[i] = x
    THEN CHOOSE i \in 1..Len(l) : l[i] = x /\ \A j \in 1..(i - 1) : l[j] # x
    ELSE 0

\* l without its element at index i
DeleteAt(l, i) == [j \in 1..(Len(l) - 1) |-> IF j < i THEN l[j] ELSE l[j + 1]]

\* list.remove(x): deletes the first element equal to x, raises ValueError
\* when there is none.
ListRemove(l, x) ==
    IF FirstIndexOf(l, x) = 0
    THEN [list |-> l, raised |-> TRUE]
    ELSE [list |-> DeleteAt(l, FirstIndexOf(l, x)), raised |-> FALSE]

\* One pass of remove_from_cart()'s loop body on `product`: "error" when
\* product['name'] raises, "found" when the name matches, "loop" otherwise.
LoopBody(product, product_name) ==
    IF ~product.has_name THEN "error"
    ELSE IF product.name = product_name THEN "found"
    ELSE "loop"

\* remove_from_cart()'s loop run without interruption from index i on.
RECURSIVE RemoveScan(_, _, _)
RemoveScan(l, i, product_name) ==
    IF i > Len(l) THEN [list |-> l, raised |-> FALSE]
    ELSE IF LoopBody(l[i], product_name) = "error" THEN [list |-> l, raised |-> TRUE]
    ELSE IF LoopBody(l[i], product_name) = "found" THEN ListRemove(l, l[i])
    ELSE RemoveScan(l, i + 1, product_name)

\* cart_products()'s loop from index i on: the running total, raised when
\* product['price'] is missing or is not a number.
RECURSIVE TotalFrom(_, _, _)
TotalFrom(l, i, total_amount) ==
    IF i > Len(l) THEN [amount |-> total_amount, raised |-> FALSE]
    ELSE IF l[i].price_kind # "float" THEN [amount |-> total_amount, raised |-> TRUE]
    ELSE TotalFrom(l, i + 1, total_amount + l[i].price)

\* The /product handler.
show_product(c, product, add) ==
    /\ IF ~product.ok
       THEN /\ resp' = Response(c, "/product", 500, "error", 0)
            /\ UNCHANGED cart
       ELSE /\ cart' = IF add THEN ListAppend(cart, product.value) ELSE cart
            /\ resp' = Render(c, "/product", "product.html", <<product.value>>)
    /\ UNCHANGED ingestVars
    /\ UNCHANGED raceVars

\* The /cart handler.
cart_products(c) ==
    /\ LET t == TotalFrom(cart, 1, 0)
       IN  resp' = IF t.raised
                   THEN Response(c, "/cart", 500, "error", 0)
                   ELSE Render(c, "/cart", "cart.html", <<cart, t.amount, Len(cart)>>)
    /\ UNCHANGED cart
    /\ UNCHANGED ingestVars
    /\ UNCHANGED raceVars

\* The /remove handler.
remove_from_cart(c, product_name) ==
    /\ LET r == RemoveScan(cart, 1, product_name)
       IN  /\ cart' = r.list
           /\ resp' = IF r.raised
                      THEN Response(c, "/remove", 500, "error", 0)
                      ELSE Response(c, "/remove", 302, "/cart", 0)
    /\ UNCHANGED ingestVars
    /\ UNCHANGED raceVars

---------------------------------------------------------------------------
(* The cart, one request at a time (specification SpecCart)                *)

InitCart ==
    /\ users = StoreManagers
    /\ InitIngest
    /\ resp = NoResp
    /\ cart = <<>>
    /\ InitRace

ShowProduct ==
    \E c \in Clients, product \in ProductArgs, add \in BOOLEAN :
        /\ add => Len(cart) < MaxCart
        /\ show_product(c, product, add)

CartProducts == \E c \in Clients : cart_products(c)

RemoveFromCart ==
    \E c \in Clients, product_name \in CartNames \cup {NoneVal} :
        remove_from_cart(c, product_name)

NextCart == ShowProduct \/ CartProducts \/ RemoveFromCart

SpecCart == InitCart /\ [][NextCart]_vars

\* The cart without its first entry whose name is n; the cart itself when no
\* entry has that name.
C3_WithoutFirstNamed(l, n) ==
    IF \E i \in 1..Len(l) : l[i].has_name /\ l[i].name = n
    THEN DeleteAt(l, CHOOSE i \in 1..Len(l) :
                        /\ l[i].has_name /\ l[i].name = n
                        /\ \A j \in 1..(i - 1) : ~(l[j].has_name /\ l[j].name = n))
    ELSE l

\* C3: /remove?product_name=n deletes exactly the first entry whose name is n
\* and keeps every other entry in place; with no such entry the cart is
\* unchanged.
C3_RemoveDeletesFirstMatch ==
    [][\A c \in Clients, n \in CartNames \cup {NoneVal} :
        remove_from_cart(c, n) => cart' = C3_WithoutFirstNamed(cart, n)]_vars

\* C3 on the carts whose entries all have a name: there the handler deletes
\* exactly the first match and answers with the redirect to /cart.
C3_RemoveDeletesFirstMatchWhenNamed ==
    [][\A c \in Clients, n \in CartNames \cup {NoneVal} :
        (remove_from_cart(c, n) /\ \A i \in 1..Len(cart) : cart[i].has_name)
        => /\ cart' = C3_WithoutFirstNamed(cart, n)
           /\ resp' = Response(c, "/remove", 302, "/cart", 0)]_vars

\* The sum of price over the entries of l from index i on.
RECURSIVE C4_Sum(_, _)
C4_Sum(l, i) ==
    IF i > Len(l) THEN 0
    ELSE (IF l[i].price_kind = "float" THEN l[i].price ELSE 0) + C4_Sum(l, i + 1)

\* C4: the /cart page reports the number of entries in the cart and the sum
\* of their prices, 0 and 0 for the empty cart.
C4_CartPageTotals ==
    [][\A c \in Clients :
        cart_products(c) =>
            /\ resp'.status = 200
            /\ resp'.data = <<cart, C4_Sum(cart, 1), Len(cart)>>]_vars

\* C4 on the carts whose entries all have a numeric price.
C4_CartPageTotalsWhenPriced ==
    [][\A c \in Clients :
        (cart_products(c) /\ \A i \in 1..Len(cart) : cart[i].price_kind = "float")
        => /\ resp'.status = 200
           /\ resp'.data = <<cart, C4_Sum(cart, 1), Len(cart)>>]_vars

---------------------------------------------------------------------------
(* Two cart requests on two threads (specification SpecRace)               *)
(*                                                                         *)
(* Under the interpreter lock a thread switch falls between bytecodes:     *)
(* list.append and list.remove each run whole, and so does one turn of     *)
(* the for loop's iterator, which holds an index into the live list.       *)

RaceEntries ==
    {Entry(TRUE, "x", "float", 1), Entry(TRUE, "x", "float", 2),
     Entry(TRUE, "y", "float", 1)}

RaceRequests ==
    {[kind |-> "append", product |-> e, product_name |-> ""] : e \in RaceEntries}
        \cup {[kind |-> "remove", product |-> Entry(FALSE, "", "absent", 0),
               product_name |-> n] : n \in CartNames}

Threads == {1, 2}

InitRaceCart ==
    /\ users = StoreManagers
    /\ InitIngest
    /\ resp = NoResp
    /\ cart0 \in SeqsUpTo(RaceEntries, MaxCart)
    /\ cart = cart0
    /\ rq \in [Threads -> RaceRequests]
    /\ rpc = [t \in Threads |-> "start"]
    /\ it = [t \in Threads |-> 0]
    /\ cur = [t \in Threads |-> Entry(FALSE, "", "absent", 0)]

\* show_product() with the add flag: cart.append(product)
append_step(t) ==
    /\ rq[t].kind = "append"
    /\ rpc[t] = "start"
    /\ cart' = ListAppend(cart, rq[t].product)
    /\ rpc' = [rpc EXCEPT ![t] = "done"]
    /\ UNCHANGED <<it, cur, rq, cart0, resp>>
    /\ UNCHANGED ingestVars

\* remove_from_cart(): one turn of `for product in cart` and the `if` on it
iter_step(t) ==
    /\ rq[t].kind = "remove"
    /\ rpc[t] \in {"start", "loop"}
    /\ IF it[t] < Len(cart)
       THEN /\ cur' = [cur EXCEPT ![t] = cart[it[t] + 1]]
            /\ it' = [it EXCEPT ![t] = it[t] + 1]
            /\ rpc' = [rpc EXCEPT ![t] = LoopBody(cart[it[t] + 1], rq[t].product_name)]
       ELSE /\ rpc' = [rpc EXCEPT ![t] = "done"]
            /\ UNCHANGED <<it, cur>>
    /\ UNCHANGED <<cart, rq, cart0, resp>>
    /\ UNCHANGED ingestVars

\* remove_from_cart(): cart.remove(product), then break
remove_step(t) ==
    /\ rq[t].kind = "remove"
    /\ rpc[t] = "found"
    /\ cart' = ListRemove(cart, cur[t]).list
    /\ rpc' = [rpc EXCEPT ![t] = IF ListRemove(cart, cur[t]).raised THEN "error" ELSE "done"]
    /\ UNCHANGED <<it, cur, rq, cart0, resp>>
    /\ UNCHANGED ingestVars

AppendStep == \E t \in Threads : append_step(t)
IterStep == \E t \in Threads : iter_step(t)
RemoveStep == \E t \in Threads : remove_step(t)

NextRace == AppendStep \/ IterStep \/ RemoveStep

SpecRace == InitRaceCart /\ [][NextRace]_vars

\* The cart after request r ran alone on cart l.
C10_SerialEffect(l, r) ==
    IF r.kind = "append" THEN Append(l, r.product)
    ELSE RemoveScan(l, 1, r.product_name).list

\* The carts the two requests leave when run one after the other.
C10_SerialOutcomes ==
    {C10_SerialEffect(C10_SerialEffect(cart0, rq[1]), rq[2]),
     C10_SerialEffect(C10_SerialEffect(cart0, rq[2]), rq[1])}

C10_RaceFinished == \A t \in Threads : rpc[t] \in {"done", "error"}

\* How often e occurs in l
C10_Count(l, e) == Cardinality({i \in 1..Len(l) : l[i] = e})

\* C10: interleaved cart requests can leave a cart that neither serial order
\* produces (C10_Witness reaches one, with an entry dropped).  What holds of
\* every interleaving: such a cart arises only between two removals, since an
\* append runs whole; and no entry is ever duplicated.
C10_OnlyRemovalsRace ==
    C10_RaceFinished =>
        /\ cart \notin C10_SerialOutcomes => \A t \in Threads : rq[t].kind = "remove"
        /\ \A e \in RaceEntries :
            C10_Count(cart, e) <= C10_Count(cart0, e)
                + Cardinality({t \in Threads : rq[t].kind = "append" /\ rq[t].product = e})

\* C10's case: both requests have finished and the cart differs from both
\* serial outcomes, an entry that both serial orders keep being gone.
C10_Witness ==
    /\ C10_RaceFinished
    /\ cart \notin C10_SerialOutcomes
    /\ \E e \in RaceEntries : \A o \in C10_SerialOutcomes : C10_Count(cart, e) < C10_Count(o, e)

---------------------------------------------------------------------------
(* Search                                                                  *)

\* The number of characters of a query word that searched_products() compares
WordPrefix == 5

\* str.split(' '): the pieces between single spaces, empty pieces included
RECURSIVE SplitFrom(_, _, _)
SplitFrom(s, i, word) ==
    IF i > Len(s) THEN <<word>>
    ELSE IF s[i] = " " THEN <<word>> \o SplitFrom(s, i + 1, <<>>)
    ELSE SplitFrom(s, i + 1, Append(word, s[i]))

SplitOnSpace(s) == SplitFrom(s, 1, <<>>)

\* The `if` of searched_products(): word.lower()[:5] in product['keywords']
WordMatches(word, product) == Contains(product.keywords, Take(Lower(word), WordPrefix))

\* A faulty variant of the inner loop below: no break after a match.
RECURSIVE InnerLoopNoBreak(_, _, _, _)
InnerLoopNoBreak(display_products, product, keywords, j) ==
    IF j > Len(keywords) THEN display_products
    ELSE IF WordMatches(keywords[j], product)
    THEN InnerLoopNoBreak(Append(display_products, product), product, keywords, j + 1)
    ELSE InnerLoopNoBreak(display_products, product, keywords, j + 1)

\* The inner loop of searched_products() from word j on: display_products
\* after it.  A match appends the product and breaks.
RECURSIVE InnerLoop(_, _, _, _)
InnerLoop(display_products, product, keywords, j) ==
    IF j > Len(keywords) THEN display_products
    ELSE IF WordMatches(keywords[j], product) THEN Append(display_products, product)
    ELSE InnerLoop(display_products, product, keywords, j + 1)

\* The outer loop of searched_products() from product i on.
RECURSIVE OuterLoop(_, _, _, _)
OuterLoop(display_products, all_products, keywords, i) ==
    IF i > Len(all_products) THEN display_products
    ELSE OuterLoop(InnerLoop(display_products, all_products[i], keywords, 1),
                   all_products, keywords, i + 1)

\* searched_products(keywords), on the list get_all_products() returned
searched_products(all_products, keywords) == OuterLoop(<<>>, all_products, keywords, 1)

\* get_all_products(): the documents of the collection as a list, in the
\* order the backend streams them.
ProductLists(coll) ==
    {l \in [1..Cardinality(coll) -> {e.doc : e \in coll}] :
        \A i, j \in 1..Cardinality(coll) : i # j => l[i] # l[j]}

\* The /search handler for the request in flight.  A GET falls off the end of
\* the view (no response is returned); a POST without the field raises.
search_products(all_products) ==
    /\ rpc[1] = "start"
    /\ all_products \in ProductLists(products)
    /\ resp' =
        IF rq[1].method # "POST" THEN Response(rq[1].client, "/search", 500, "error", 0)
        ELSE IF ~rq[1].has_search THEN Response(rq[1].client, "/search", 400, "error", 0)
        ELSE Render(rq[1].client, "/search", "searched.html",
                    <<SplitOnSpace(rq[1].search), all_products,
                      searched_products(all_products, SplitOnSpace(rq[1].search))>>)
    /\ rpc' = <<"done">>
    /\ UNCHANGED <<rq, it, cur, cart0, cart>>
    /\ UNCHANGED ingestVars

---------------------------------------------------------------------------
(* Search over every small catalog and query (specification SpecSearch)    *)

SearchNames == {<<"A">>, <<"B">>, <<"A", " ", "b">>}
SearchKeywords == {<<"A", "A", "A", "A", "A">>, <<"b">>}
QueryAlphabet == {"A", "b", " "}

\* The collection after ingesting name with the given keywords
Ingested(coll, name, keywords) ==
    upload_to_firestore(coll, name, "chocolate", 1, NoneVal,
                        ImageRef("chocolate", Slug(name)), <<>>, keywords)

\* The catalogs: each name ingested at most once, with either keywords.
RECURSIVE CatalogsOver(_)
CatalogsOver(names) ==
    IF names = {} THEN {{}}
    ELSE LET n == CHOOSE x \in names : TRUE
             rest == CatalogsOver(names \ {n})
         IN  rest \cup {Ingested(coll, n, k) : coll \in rest, k \in SearchKeywords}

SearchRequests ==
    {[client |-> "c1", method |-> "POST", has_search |-> TRUE, search |-> q] :
        q \in SeqsUpTo(QueryAlphabet, MaxQueryLen)}
        \cup {[client |-> "c1", method |-> "POST", has_search |-> FALSE, search |-> <<>>],
              [client |-> "c1", method |-> "GET", has_search |-> FALSE, search |-> <<>>]}

InitSearch ==
    /\ users = StoreManagers
    /\ session = [c \in Clients |-> NoneVal]
    /\ products \in CatalogsOver(SearchNames)
    /\ bucket = {}
    /\ uploaded_images = {}
    /\ pc = [c \in Clients |-> "idle"]
    /\ req = [c \in Clients |-> NoReq]
    /\ resp = NoResp
    /\ cart = <<>>
    /\ rq \in {<<r>> : r \in SearchRequests}
    /\ rpc = <<"start">>
    /\ it = <<>>
    /\ cur = <<>>
    /\ cart0 = <<>>

SearchProducts ==
    \E all_products \in ProductLists(products) : search_products(all_products)

NextSearch == SearchProducts

SpecSearch == InitSearch /\ [][NextSearch]_vars

SearchAnswered == rpc = <<"done">> /\ resp.status = 200

\* The words of a query split on whitespace: its maximal runs of characters
\* other than the space.
C5_Words(q) ==
    {SubSeq(q, p[1], p[2]) :
        p \in {r \in (1..Len(q)) \X (1..Len(q)) :
                /\ r[1] <= r[2]
                /\ \A k \in r[1]..r[2] : q[k] # " "
                /\ (r[1] = 1 \/ q[r[1] - 1] = " ")
                /\ (r[2] = Len(q) \/ q[r[2] + 1] = " ")}}

\* The search result holds product p of the retrieved list exactly when a
\* word of the query, cut to five characters and lowercased, is in p's keywords.
C5_ResultIsWordMatches(q) ==
    \A i \in 1..Len(resp.data[2]) :
        (\E k \in 1..Len(resp.data[3]) : resp.data[3][k] = resp.data[2][i])
        <=> \E w \in C5_Words(q) : Contains(resp.data[2][i].keywords, Lower(Take(w, 5)))

\* C5: a product is in the search result if and only if some word of the
\* query, the words being split on whitespace, cut to its first 5 characters
\* and lowercased, is a substring of the product's keywords.
C5_SearchMatchesWhitespaceWords ==
    SearchAnswered => C5_ResultIsWordMatches(rq[1].search)

\* C5 on the queries that str.split(' ') splits into non-empty words only:
\* no leading, trailing or doubled space, and not the empty query.
C5_SearchMatchesWordsWhenSingleSpaced ==
    (SearchAnswered /\ \A j \in 1..Len(resp.data[1]) : resp.data[1][j] # <<>>)
        => C5_ResultIsWordMatches(rq[1].search)

\* C6: the search result is a subsequence of the retrieved product list: each
\* product at most once, in the order of retrieval.
C6_ResultIsSubsequence ==
    SearchAnswered =>
        \E f \in [1..Len(resp.data[3]) -> 1..Len(resp.data[2])] :
            /\ \A k \in 1..Len(resp.data[3]) : resp.data[3][k] = resp.data[2][f[k]]
            /\ \A k1, k2 \in 1..Len(resp.data[3]) : k1 < k2 => f[k1] < f[k2]

\* C6's case: two words of the query match the same product, which the result
\* lists among several, while another product of the catalog is left out.
C6_Witness ==
    /\ SearchAnswered
    /\ Len(resp.data[2]) = 3
    /\ Len(resp.data[3]) = 2
    /\ \E j1, j2 \in 1..Len(resp.data[1]) :
        /\ j1 < j2
        /\ WordMatches(resp.data[1][j1], resp.data[3][1])
        /\ WordMatches(resp.data[1][j2], resp.data[3][1])
        /\ WordMatches(resp.data[1][j2], resp.data[3][2])

===========================================================================
